---- MODULE Spec2Model ----
(***************************************************************************)
(* Microphone pitch-detection-to-note-event pipeline of music-reader.      *)
(*                                                                         *)
(* The module state of src/utils/micUtils.js (stream, audio graph, frame   *)
(* handle, stability gate), the browser environment it runs in (the        *)
(* clock, pending getUserMedia promises, open tracks and contexts,         *)
(* scheduled animation frames) and the operations startMicListening, loop, *)
(* suppressMicListening and stopMicListening.                              *)
(*                                                                         *)
(* Units: time in ms, frequency in 1/100 Hz, pitch and snap tolerance in   *)
(* 1/10000 semitone, RMS in 1/10000 of full scale.                         *)
(***************************************************************************)
EXTENDS Integers, Sequences, FiniteSets, TLC

(***************************************************************************)
(* Bounds of the model.                                                    *)
(***************************************************************************)
\* Date.now() when the page is loaded (an epoch time, far above any cooldown).
StartClock == 10000
\* startMicListening calls, with the resources they acquired, that are
\* followed at one time.
MaxCalls == 2
\* stableCount is followed up to this value.
MaxStableCount == 4
\* Frames in a row below the silence level that are followed.
MaxSilenceFrames == 4
\* Notes of a song (the code's random songs have WINDOW = 8 notes).
MaxSongLen == 3
\* saveRecord calls that are followed.
MaxSaves == 3
\* Renders of useMic with a new onNote handler that are followed.
MaxRenders == 2
\* finishSong calls per song that are followed.
MaxFinished == 2
\* Notes resolved since mount that are followed.
MaxResolved == 4
\* Notes of a generated song that are followed (WINDOW is 8 in the program).
WINDOW == 3

\* Arguments of suppressMicListening.
SuppressDurations == {100}

(***************************************************************************)
(* Null values. JS null is modelled per type, as TLC compares values of    *)
(* one type only.                                                          *)
(***************************************************************************)
NoId == 0
NullName == "null"
NullNote == [name |-> NullName, octave |-> 0]
NoPitch == -1

(***************************************************************************)
(* Program constants.                                                      *)
(***************************************************************************)
\* micUtils.js (YIN version)
SAME_NOTE_COOLDOWN_MS == 1500
ANY_NOTE_COOLDOWN_MS == 100
STABLE_FRAMES == 3
\* MPM version (silence-gap tracking)
MPM_SAME_NOTE_COOLDOWN_MS == 700
MPM_ANY_NOTE_COOLDOWN_MS == 80
MPM_STABLE_FRAMES == 2
SILENCE_GAP_FRAMES == 4

NOTE_NAMES == <<"C", "C#", "D", "D#", "E", "F", "F#", "G", "G#", "A", "A#", "B">>

Naturals7 == {"A", "B", "C", "D", "E", "F", "G"}

Modes == {"strict", "normal", "piano"}

\* MIC_PRESETS of the YIN version: the fields the loop reads.
MIC_PRESETS(mode) ==
    CASE mode = "strict" -> [rmsThreshold |-> 200, snapTolerance |-> 3500]
      [] mode = "normal" -> [rmsThreshold |-> 150, snapTolerance |-> 4500]
      [] mode = "piano"  -> [rmsThreshold |-> 100, snapTolerance |-> 5000]

\* MIC_PRESETS of the MPM version.
MPM_MIC_PRESETS(mode) ==
    CASE mode = "strict" -> [rmsThreshold |-> 120, snapTolerance |-> 3500]
      [] mode = "normal" -> [rmsThreshold |-> 60,  snapTolerance |-> 4500]
      [] mode = "piano"  -> [rmsThreshold |-> 40,  snapTolerance |-> 5000]

(***************************************************************************)
(* freqToNote.                                                             *)
(***************************************************************************)
\* Frequencies a detector reports in the model (1/100 Hz): 20 Hz, C4, C#4,
\* A4, A4 + 0.4 semitone, C5, 5000 Hz.
Freqs == {2000, 26163, 27718, 44000, 45028, 52325, 500000}

\* Frequencies freqToNote is called with on its own (1/100 Hz): the range
\* bounds 27 Hz and 4200 Hz and their neighbours, A0, C8, the accidentals
\* C#7, D#7 and A#7, F7, B7, the midpoints E7/F7 and B7/C8 of adjacent
\* naturals, and A7 + 0.5 semitone. Each stands for the double next to it
\* whose fractional MIDI number is the tabulated one.
NoteFreqs ==
    Freqs \cup {2680, 2699, 2700, 2750, 221746, 248902, 271429, 279383, 362314,
                372931, 395107, 406684, 418601, 420000, 420001, 425000}

\* Values of snapTolerance, in 1/10000 semitone: 0.1, the three presets,
\* 0.9999 and 1.
Tolerances == {1000, 3500, 4500, 5000, 9999, 10000}

\* 12 * Math.log2(freq / 440) + 69, in 1/10000 semitone, on Freqs.
MidiFloat(freq) ==
    CASE freq = 2000   -> 154868
      [] freq = 26163  -> 600003
      [] freq = 27718  -> 609998
      [] freq = 44000  -> 690000
      [] freq = 45028  -> 693998
      [] freq = 52325  -> 720000
      [] freq = 500000 -> 1110762
      [] freq = 2680   -> 205536
      [] freq = 2699   -> 206759
      [] freq = 2700   -> 206823
      [] freq = 2750   -> 210000
      [] freq = 221746 -> 970000
      [] freq = 248902 -> 990000
      [] freq = 271429 -> 1005000
      [] freq = 279383 -> 1010000
      [] freq = 362314 -> 1055000
      [] freq = 372931 -> 1060000
      [] freq = 395107 -> 1070000
      [] freq = 406684 -> 1075000
      [] freq = 418601 -> 1080000
      [] freq = 420000 -> 1080578
      [] freq = 420001 -> 1080578
      [] freq = 425000 -> 1082626

\* Math.round on a value in 1/10000: floor(x + 0.5).
MathRound(x) == (x + 5000) \div 10000

Abs(x) == IF x < 0 THEN -x ELSE x

\* NOTE_NAMES[((midi % 12) + 12) % 12]
NoteNameOf(midi) == NOTE_NAMES[(midi % 12) + 1]

IsSharp(name) == name \in {"C#", "D#", "F#", "G#", "A#"}

\* Variant of BestOf that keeps the last of two equally near candidates.
RECURSIVE BestOf_LastOnTie(_, _, _, _, _)
BestOf_LastOnTie(midiFloat, midi, last, bestMidi, bestDist) ==
    IF midi > last THEN [midi |-> bestMidi, dist |-> bestDist]
    ELSE IF IsSharp(NoteNameOf(midi))
         THEN BestOf_LastOnTie(midiFloat, midi + 1, last, bestMidi, bestDist)
         ELSE LET dist == Abs(midiFloat - midi * 10000)
              IN IF bestDist < 0 \/ dist <= bestDist
                 THEN BestOf_LastOnTie(midiFloat, midi + 1, last, midi, dist)
                 ELSE BestOf_LastOnTie(midiFloat, midi + 1, last, bestMidi, bestDist)

\* The candidates of the search loop, in loop order, that pass the filter.
RECURSIVE BestOf(_, _, _, _, _)
BestOf(midiFloat, midi, last, bestMidi, bestDist) ==
    IF midi > last THEN [midi |-> bestMidi, dist |-> bestDist]
    ELSE IF IsSharp(NoteNameOf(midi))
         THEN BestOf(midiFloat, midi + 1, last, bestMidi, bestDist)
         ELSE LET dist == Abs(midiFloat - midi * 10000)
              IN IF bestDist < 0 \/ dist < bestDist
                 THEN BestOf(midiFloat, midi + 1, last, midi, dist)
                 ELSE BestOf(midiFloat, midi + 1, last, bestMidi, bestDist)

\* Variant of BestOf without the sharp filter.
RECURSIVE BestOfAnyName(_, _, _, _, _)
BestOfAnyName(midiFloat, midi, last, bestMidi, bestDist) ==
    IF midi > last THEN [midi |-> bestMidi, dist |-> bestDist]
    ELSE LET dist == Abs(midiFloat - midi * 10000)
         IN IF bestDist < 0 \/ dist < bestDist
            THEN BestOfAnyName(midiFloat, midi + 1, last, midi, dist)
            ELSE BestOfAnyName(midiFloat, midi + 1, last, bestMidi, bestDist)

freqToNote_AnyName(freq, snapTolerance) ==
    IF freq < 2700 \/ freq > 420000 THEN NullNote
    ELSE LET midiFloat == MidiFloat(freq)
             center == MathRound(midiFloat)
             best == BestOfAnyName(midiFloat, center - 2, center + 2, -1, -1)
         IN IF best.dist < 0 \/ best.dist > snapTolerance THEN NullNote
            ELSE [name |-> NoteNameOf(best.midi),
                  octave |-> (best.midi \div 12) - 1]

\* Variant of freqToNote whose range check also rejects 27 Hz and 4200 Hz.
freqToNote_StrictRange(freq, snapTolerance) ==
    IF freq <= 2700 \/ freq >= 420000 THEN NullNote
    ELSE LET midiFloat == MidiFloat(freq)
             center == MathRound(midiFloat)
             best == BestOf(midiFloat, center - 2, center + 2, -1, -1)
         IN IF best.dist < 0 \/ best.dist > snapTolerance THEN NullNote
            ELSE [name |-> NoteNameOf(best.midi),
                  octave |-> (best.midi \div 12) - 1]

\* Variant of freqToNote that rejects a distance equal to the tolerance.
freqToNote_StrictTolerance(freq, snapTolerance) ==
    IF freq < 2700 \/ freq > 420000 THEN NullNote
    ELSE LET midiFloat == MidiFloat(freq)
             center == MathRound(midiFloat)
             best == BestOf(midiFloat, center - 2, center + 2, -1, -1)
         IN IF best.dist < 0 \/ best.dist >= snapTolerance THEN NullNote
            ELSE [name |-> NoteNameOf(best.midi),
                  octave |-> (best.midi \div 12) - 1]

\* Variant of freqToNote that snaps to the nearest natural at any distance.
freqToNote_ForceSnap(freq, snapTolerance) ==
    IF freq < 2700 \/ freq > 420000 THEN NullNote
    ELSE LET midiFloat == MidiFloat(freq)
             center == MathRound(midiFloat)
             best == BestOf(midiFloat, center - 2, center + 2, -1, -1)
         IN IF best.dist < 0 THEN NullNote
            ELSE [name |-> NoteNameOf(best.midi),
                  octave |-> (best.midi \div 12) - 1]

\* freqToNote(freq, snapTolerance): bestDist = Infinity is modelled as -1.
freqToNote(freq, snapTolerance) ==
    IF freq < 2700 \/ freq > 420000 THEN NullNote
    ELSE LET midiFloat == MidiFloat(freq)
             center == MathRound(midiFloat)
             best == BestOf(midiFloat, center - 2, center + 2, -1, -1)
         IN IF best.dist < 0 \/ best.dist > snapTolerance THEN NullNote
            ELSE [name |-> NoteNameOf(best.midi),
                  octave |-> (best.midi \div 12) - 1]

(***************************************************************************)
(* State.                                                                  *)
(***************************************************************************)
VARIABLES
    variant,        \* which version of micUtils.js runs: "yin" or "mpm"
    now,            \* Date.now()
    \* module state of micUtils.js
    audioCtx, analyser, source, stream, rafId, filterNodes,
    lastFiredNote, lastFiredTime, suppressUntil,
    stableNote, stableCount, silenceFrames,
    \* environment
    loops,          \* startMicListening calls in progress: id -> [mode, st]
    tracks,         \* streams whose tracks are not stopped
    ctxs,           \* AudioContexts not closed
    frames,         \* loops with a requestAnimationFrame callback pending
    \* observation
    watch,          \* the observers that record in this behaviour
    ev,             \* what the last step did
    lastOnNote,     \* the last onNote invocation since the last stop
    gapSince,       \* a silence gap cleared lastFiredNote since that invocation
    run,            \* identical candidate frames in a row, from an idle gate
    same,           \* candidate frames since the candidate's name last changed
    sust,           \* the session so far heard A4 in every frame
    since,          \* candidate frames per name since the last onNote invocation
    \* useMic
    hook,           \* micActive, micError, lastHeardNote, micMode
    \* a call of a function on its own
    call,           \* freqToNote: the arguments and, once it returned, the result
    \* App
    game,           \* useSongGame: song, currentIndex, results, hasWrongAttempt, songComplete
    stats,          \* useSongGame: sessionScore, sessionStreak, sessionTotal
    sel,            \* useSongGame: clef, selectedSong, song, songComplete
    closure,        \* the useSongGame state of the last render, which handleAnswer reads
    storage,        \* localStorage item 'music-reader-records'
    records,        \* App's records state, shown by HistoryPanel
    appEv           \* what the last step of the game or of recordUtils did

modVars == <<audioCtx, analyser, source, stream, rafId, filterNodes,
             lastFiredNote, lastFiredTime, suppressUntil,
             stableNote, stableCount, silenceFrames>>
envVars == <<loops, tracks, ctxs, frames>>
obsVars == <<ev, lastOnNote, gapSince, run, same, sust, since>>
appVars == <<game, stats, sel, closure, storage, records, appEv>>
sideVars == <<call, appVars>>
micVars == <<variant, watch, now, modVars, envVars, obsVars>>
vars == <<micVars, hook, sideVars>>

StableFrames == IF variant = "yin" THEN STABLE_FRAMES ELSE MPM_STABLE_FRAMES
AnyCooldown == IF variant = "yin" THEN ANY_NOTE_COOLDOWN_MS ELSE MPM_ANY_NOTE_COOLDOWN_MS
SameCooldown == IF variant = "yin" THEN SAME_NOTE_COOLDOWN_MS ELSE MPM_SAME_NOTE_COOLDOWN_MS
Preset(mode) == IF variant = "yin" THEN MIC_PRESETS(mode) ELSE MPM_MIC_PRESETS(mode)

\* What the analyser delivers in one frame: the RMS of the buffer and what
\* the pitch detector returns for it.
Silence == [rms |-> 0, pitch |-> NoPitch]
Loud(freq) == [rms |-> 1000, pitch |-> freq]
\* Between the normal preset's RMS threshold and 1.5 times it (MPM version).
Quiet(freq) == [rms |-> 70, pitch |-> freq]
AllFrames ==
    {Silence, Quiet(26163), Loud(26163), Loud(27718), Loud(44000), Loud(52325)}
Frames ==
    IF "hook" \in watch THEN {Silence, Loud(44000)}
    ELSE IF variant = "yin"
    THEN {Silence, Loud(26163), Loud(27718), Loud(44000), Loud(52325)}
    ELSE {Silence, Quiet(26163), Loud(26163)}

\* The options startMicListening is called with: none, or a mode.
StartModes == {"normal"}

\* What a callback does besides returning: nothing, stopMicListening() from
\* inside onHeard or from inside onNote, or throwing. The callbacks that
\* useMic passes return.
ThrowCallbacks == {"throwInHeard", "throwInNote"}
\* "noOnHeard": startMicListening was called without the onHeard argument.
AllCallbacks ==
    {"return", "stopInHeard", "stopInNote", "noOnHeard"} \cup ThrowCallbacks
Callbacks ==
    IF "errors" \in watch THEN {"return"} \cup ThrowCallbacks
    ELSE IF "heard" \in watch THEN {"return", "noOnHeard"}
    ELSE IF watch \cap {"hook", "since"} # {} THEN {"return"}
    ELSE {"return", "stopInHeard", "stopInNote"}

\* What getUserMedia rejects with, and what a throwing callback throws.
Errors ==
    {[name |-> "NotAllowedError", message |-> "Permission denied"],
     [name |-> "NotFoundError", message |-> "Requested device not found"]}
CallbackError == [name |-> "Error", message |-> "callback failed"]
\* What the AudioContext constructor throws when no context can be made.
AudioError == [name |-> "NotSupportedError", message |-> "no audio hardware"]

\* The instants at which the clock is read: page load, then the any-note
\* cooldown, the same-note cooldown and their sum later.
ClockTimes ==
    {StartClock + d : d \in {0, AnyCooldown, SameCooldown,
                             SameCooldown + AnyCooldown}}
AllClockTimes ==
    {StartClock + d : d \in
        {0, ANY_NOTE_COOLDOWN_MS, SAME_NOTE_COOLDOWN_MS,
         SAME_NOTE_COOLDOWN_MS + ANY_NOTE_COOLDOWN_MS,
         MPM_ANY_NOTE_COOLDOWN_MS, MPM_SAME_NOTE_COOLDOWN_MS,
         MPM_SAME_NOTE_COOLDOWN_MS + MPM_ANY_NOTE_COOLDOWN_MS}}

\* The module state and the resources it refers to, as one value.
World ==
    [audioCtx |-> audioCtx, analyser |-> analyser, source |-> source,
     stream |-> stream, rafId |-> rafId, filterNodes |-> filterNodes,
     lastFiredNote |-> lastFiredNote, lastFiredTime |-> lastFiredTime,
     suppressUntil |-> suppressUntil, stableNote |-> stableNote,
     stableCount |-> stableCount, silenceFrames |-> silenceFrames,
     tracks |-> tracks, ctxs |-> ctxs, frames |-> frames,
     lastOnNote |-> lastOnNote, gapSince |-> gapSince]

Commit(w) ==
    /\ audioCtx' = w.audioCtx
    /\ analyser' = w.analyser
    /\ source' = w.source
    /\ stream' = w.stream
    /\ rafId' = w.rafId
    /\ filterNodes' = w.filterNodes
    /\ lastFiredNote' = w.lastFiredNote
    /\ lastFiredTime' = w.lastFiredTime
    /\ suppressUntil' = w.suppressUntil
    /\ stableNote' = w.stableNote
    /\ stableCount' = w.stableCount
    /\ silenceFrames' = w.silenceFrames
    /\ tracks' = w.tracks
    /\ ctxs' = w.ctxs
    /\ frames' = w.frames
    /\ lastOnNote' = w.lastOnNote
    /\ gapSince' = w.gapSince

NoCall == [name |-> NullName, t |-> 0]
NoArgs == [freq |-> 0, snapTolerance |-> 0, done |-> FALSE, result |-> NullNote]
NoError == [name |-> "none", message |-> ""]
NoResult == "none"
\* The JavaScript null that startMicListening returns on success.
NullResult == "null"
NoEvent == [op |-> "none", fired |-> NullNote, prev |-> NoCall,
           err |-> NoError, result |-> NoResult,
           cand |-> NullNote, onHeard |-> TRUE, heard |-> <<>>,
            afterGap |-> FALSE, stopped |-> FALSE, released |-> NoId]
NoRun == [note |-> NullNote, len |-> 0]
NoSame == [name |-> NullName, n |-> 0]
NoSince == [cnt |-> [n \in Naturals7 |-> 0], atFire |-> 0]
SustStart == [on |-> TRUE, ticks |-> 0, notes |-> 0]
SustOff == [on |-> FALSE, ticks |-> 0, notes |-> 0]

Start(v, ws) ==
    /\ variant = v
    /\ watch = ws
    /\ now = StartClock
    /\ audioCtx = NoId /\ analyser = NoId /\ source = NoId /\ stream = NoId
    /\ rafId = NoId /\ filterNodes = {}
    /\ lastFiredNote = NullName /\ lastFiredTime = 0 /\ suppressUntil = 0
    /\ stableNote = NullNote /\ stableCount = 0 /\ silenceFrames = 0
    /\ loops = <<>>
    /\ tracks = {} /\ ctxs = {} /\ frames = {}
    /\ ev = NoEvent
    /\ lastOnNote = NoCall /\ gapSince = FALSE
    /\ run = NoRun /\ same = NoSame /\ since = NoSince
    /\ sust = IF "sust" \in ws THEN SustStart ELSE SustOff

\* useState initial values of useMic.
NullHeard == [note |-> NullName, freq |-> NoPitch]
\* The onNote handlers passed to useMic are numbered by render; none.
NoHandler == -1

HookInit ==
    [micActive |-> FALSE, micError |-> NullResult, lastHeardNote |-> NullHeard,
     micMode |-> "normal",
     songComplete |-> FALSE,
     onNote |-> 0, onNoteRef |-> 0, delivered |-> NoHandler]

\* No function is being called on its own, useMic is as mounted.
\* localStorage.getItem: null, a JSON text (held as the array it denotes) or a
\* text that JSON.parse rejects.
NoItem == [kind |-> "null", recs |-> <<>>]
Corrupt == [kind |-> "corrupt", recs |-> <<>>]
NoGame == [song |-> <<>>, currentIndex |-> 0, results |-> <<>>,
           hasWrongAttempt |-> FALSE, songComplete |-> FALSE]
NoAppEv == [op |-> "none"]
NoStats == [sessionScore |-> 0, sessionStreak |-> 0, sessionTotal |-> 0]
NoSel == [clef |-> "none"]
NoApp == game = NoGame /\ stats = NoStats /\ sel = NoSel /\ closure = NoGame /\ storage = NoItem /\ records = <<>> /\ appEv = NoAppEv

NoSide == call = NoArgs /\ hook = HookInit /\ NoApp

Init == Start("yin", {}) /\ NoSide
InitStable == Start("yin", {"run", "same"}) /\ NoSide
InitSust == Start("yin", {"sust"}) /\ NoSide
InitGap == Start("mpm", {}) /\ NoSide
InitThrow == Start("yin", {"errors"}) /\ NoSide
InitHeard == Start("yin", {"heard"}) /\ NoSide
InitHook == Start("yin", {"hook"}) /\ NoSide
InitSince == Start("yin", {"since"}) /\ NoSide
InitAll == Init \/ InitGap
InitGapHeard == Start("mpm", {"heard"}) /\ NoSide

(***************************************************************************)
(* stopMicListening.                                                       *)
(***************************************************************************)
\* Variant of stopMicListening that leaves the stability tracking as it is.
stopMicListening_KeepTracking(w) ==
    [w EXCEPT !.frames = @ \ {w.rafId}, !.rafId = NoId,
              !.source = NoId, !.filterNodes = {}, !.analyser = NoId,
              !.ctxs = @ \ {w.audioCtx}, !.audioCtx = NoId,
              !.tracks = @ \ {w.stream}, !.stream = NoId,
              !.lastFiredNote = NullName, !.lastFiredTime = 0,
              !.suppressUntil = 0,
              !.lastOnNote = NoCall, !.gapSince = FALSE]

\* Variant of stopMicListening that returns after cancelling a pending frame.
stopMicListening_OneAtATime(w) ==
    IF w.rafId # NoId
    THEN [w EXCEPT !.frames = @ \ {w.rafId}, !.rafId = NoId]
    ELSE [w EXCEPT !.source = NoId, !.filterNodes = {}, !.analyser = NoId,
                   !.ctxs = @ \ {w.audioCtx}, !.audioCtx = NoId,
                   !.tracks = @ \ {w.stream}, !.stream = NoId,
                   !.lastFiredNote = NullName, !.lastFiredTime = 0,
                   !.suppressUntil = 0,
                   !.stableNote = NullNote, !.stableCount = 0,
                   !.silenceFrames = 0,
                   !.lastOnNote = NoCall, !.gapSince = FALSE]

\* cancelAnimationFrame(rafId), source.disconnect(), audioCtx.close() and
\* track.stop() on what the module variables refer to, then the resets.
stopMicListening(w) ==
    [w EXCEPT !.frames = @ \ {w.rafId}, !.rafId = NoId,
              !.source = NoId, !.filterNodes = {}, !.analyser = NoId,
              !.ctxs = @ \ {w.audioCtx}, !.audioCtx = NoId,
              !.tracks = @ \ {w.stream}, !.stream = NoId,
              !.lastFiredNote = NullName, !.lastFiredTime = 0,
              !.suppressUntil = 0,
              !.stableNote = NullNote, !.stableCount = 0,
              !.silenceFrames = 0,
              !.lastOnNote = NoCall, !.gapSince = FALSE]

(***************************************************************************)
(* loop: one tick.                                                         *)
(***************************************************************************)
\* Variant of SilenceGap that counts the frames and keeps lastFiredNote.
SilenceGap_KeepsLastFired(w, rms, preset) ==
    IF 2 * rms < 3 * preset.rmsThreshold
    THEN [w EXCEPT !.silenceFrames = @ + 1,
                   !.gapSince =
                       IF w.silenceFrames + 1 >= SILENCE_GAP_FRAMES
                       THEN w.lastOnNote # NoCall ELSE @]
    ELSE [w EXCEPT !.silenceFrames = 0]

\* Silence-gap tracking of the MPM version: rms < preset.rmsThreshold * 1.5.
SilenceGap(w, rms, preset) ==
    IF 2 * rms < 3 * preset.rmsThreshold
    THEN [w EXCEPT !.silenceFrames = @ + 1,
                   !.lastFiredNote =
                       IF w.silenceFrames + 1 >= SILENCE_GAP_FRAMES
                       THEN NullName ELSE @,
                   !.gapSince =
                       IF w.silenceFrames + 1 >= SILENCE_GAP_FRAMES
                       THEN w.lastOnNote # NoCall ELSE @]
    ELSE [w EXCEPT !.silenceFrames = 0]

\* The note candidate of a frame.
Candidate(preset, frame) ==
    LET rawFreq == IF frame.rms >= preset.rmsThreshold THEN frame.pitch ELSE NoPitch
    IN IF rawFreq > 0 THEN freqToNote(rawFreq, preset.snapTolerance) ELSE NullNote

\* freq of loop(): the detected frequency, -1 when there is none.
Freq(preset, frame) ==
    IF frame.rms >= preset.rmsThreshold THEN frame.pitch ELSE NoPitch

\* Variant of Heard that reports every frame.
Heard_EveryFrame(note, freq, onHeard) ==
    IF onHeard THEN <<[note |-> note.name, freq |-> freq]>> ELSE <<>>

\* The onHeard invocations of one run of loop(), in order.
Heard(note, freq, onHeard) ==
    IF onHeard /\ note # NullNote
    THEN <<[note |-> note.name, freq |-> freq]>>
    ELSE <<>>

\* Variant of Track that restarts the count on every candidate.
Track_Restarts(w, note) ==
    IF note # NullNote
    THEN [w EXCEPT !.stableNote = note, !.stableCount = 1]
    ELSE w

\* The tracking update.
Track(w, note) ==
    IF note # NullNote /\ w.stableNote # NullNote /\ note.name = w.stableNote.name
    THEN [w EXCEPT !.stableCount = @ + 1]
    ELSE IF note # NullNote
         THEN [w EXCEPT !.stableNote = note, !.stableCount = 1]
         ELSE w

\* Variant of Eligible without the any-note cooldown.
Eligible_NoAnyCooldown(w, t) ==
    LET timeSinceLastFire == t - w.lastFiredTime
        sameNote == w.stableNote.name = w.lastFiredNote
    IN /\ w.stableCount >= StableFrames
       /\ w.stableNote # NullNote
       /\ (~sameNote \/ timeSinceLastFire > SameCooldown)

\* Variant of Eligible without the same-note cooldown.
Eligible_NoSameCooldown(w, t) ==
    LET timeSinceLastFire == t - w.lastFiredTime
    IN /\ w.stableCount >= StableFrames
       /\ w.stableNote # NullNote
       /\ ~(timeSinceLastFire < AnyCooldown)

\* Variant of Eligible that fires one frame early.
Eligible_OneFrameEarly(w, t) ==
    LET timeSinceLastFire == t - w.lastFiredTime
        sameNote == w.stableNote.name = w.lastFiredNote
    IN /\ w.stableCount >= StableFrames - 1
       /\ w.stableNote # NullNote
       /\ ~(timeSinceLastFire < AnyCooldown)
       /\ (~sameNote \/ timeSinceLastFire > SameCooldown)

\* Variant of Suppressed with the comparison the wrong way round.
Suppressed_WrongSign(w, t) == t > w.suppressUntil

\* Variant of Suppressed in which a window, once set, never ends.
Suppressed_NeverEnds(w, t) == w.suppressUntil # 0 \/ t < w.suppressUntil

\* now < suppressUntil
Suppressed(w, t) == t < w.suppressUntil

\* Variant of Eligible whose any-note cooldown also blocks at its limit.
Eligible_LateAny(w, t) ==
    LET timeSinceLastFire == t - w.lastFiredTime
        sameNote == w.stableNote.name = w.lastFiredNote
    IN /\ w.stableCount >= StableFrames
       /\ w.stableNote # NullNote
       /\ ~(timeSinceLastFire <= AnyCooldown)
       /\ (~sameNote \/ timeSinceLastFire > SameCooldown)

\* The firing condition of a tick that is not suppressed.
Eligible(w, t) ==
    LET timeSinceLastFire == t - w.lastFiredTime
        sameNote == w.stableNote.name = w.lastFiredNote
    IN /\ w.stableCount >= StableFrames
       /\ w.stableNote # NullNote
       /\ ~(timeSinceLastFire < AnyCooldown)
       /\ (~sameNote \/ timeSinceLastFire > SameCooldown)

\* Variant of ErrorResult that ignores the name of the error.
ErrorResult_Generic(err) == "Microphone error: " \o err.message

\* The denial message, its dash written in ASCII.
DeniedMessage ==
    "Microphone access denied - allow it in your browser settings and try again."

\* The catch block of startMicListening.
ErrorResult(err) ==
    IF err.name = "NotAllowedError"
    THEN DeniedMessage
    ELSE "Microphone error: " \o err.message

\* stableNote = null; stableCount = 0
ResetStable(w) == [w EXCEPT !.stableNote = NullNote, !.stableCount = 0]

\* rafId = requestAnimationFrame(loop), by the closure id.
Reschedule(w, id) == [w EXCEPT !.rafId = id, !.frames = @ \cup {id}]

\* What follows the onNote call in state a: nothing when onNote throws,
\* otherwise the reset of the stable note, after a stop if onNote stops.
AfterOnNote(a, cb) ==
    IF cb = "throwInNote" THEN a
    ELSE ResetStable(IF cb = "stopInNote" THEN stopMicListening(a) ELSE a)

\* Variant of FireNote that does not record the fire.
FireNote_NoRecord(w3, cb, t) ==
    AfterOnNote([w3 EXCEPT !.lastOnNote = [name |-> w3.stableNote.name, t |-> t],
                           !.gapSince = FALSE],
                cb)

\* The firing branch on the tracked state w3: the fire is recorded, then
\* onNote is called.
FireNote(w3, cb, t) ==
    AfterOnNote([w3 EXCEPT !.lastFiredNote = w3.stableNote.name,
                           !.lastFiredTime = t,
                           !.lastOnNote = [name |-> w3.stableNote.name, t |-> t],
                           !.gapSince = FALSE],
                cb)

\* The end of loop(): w1 is the state before onHeard, w3 the state after the
\* tracking; a callback that throws ends loop() at the call.
LoopResult(w1, w3, note, freq, id, cb, t, heardThrows, suppressed, fire) ==
    [w |-> IF heardThrows THEN w1
           ELSE IF fire /\ cb = "throwInNote" THEN FireNote(w3, cb, t)
           ELSE Reschedule(IF suppressed THEN ResetStable(w3)
                           ELSE IF fire THEN FireNote(w3, cb, t)
                           ELSE w3,
                           id),
     cand |-> note,
     supp |-> suppressed,
     fired |-> IF fire THEN w3.stableNote ELSE NullNote,
     prev |-> IF fire THEN w3.lastOnNote ELSE NoCall,
     afterGap |-> fire /\ w3.gapSince,
     heardStopped |-> note # NullNote /\ cb = "stopInHeard",
     noteStopped |-> fire /\ cb = "stopInNote",
     onHeard |-> cb # "noOnHeard",
     heard |-> Heard(note, freq, cb # "noOnHeard"),
     thrown |-> heardThrows \/ (fire /\ cb = "throwInNote")]

\* The suppression test and the firing condition on the tracked state w3.
LoopGate(w1, w3, note, freq, id, cb, t, heardThrows) ==
    LoopResult(w1, w3, note, freq, id, cb, t, heardThrows,
               ~heardThrows /\ Suppressed(w3, t),
               ~heardThrows /\ ~Suppressed(w3, t) /\ Eligible(w3, t))

\* The onHeard call, which may stop the session, and the tracking.
LoopTrack(w1, note, freq, id, cb, t) ==
    LoopGate(w1,
             Track(IF note # NullNote /\ cb = "stopInHeard"
                   THEN stopMicListening(w1) ELSE w1,
                   note),
             note, freq, id, cb, t,
             note # NullNote /\ cb = "throwInHeard")

\* loop() of the closure id, on one frame, with the callbacks behaving as cb.
loop(w0, id, preset, frame, cb, t) ==
    LoopTrack(IF variant = "mpm" THEN SilenceGap(w0, frame.rms, preset) ELSE w0,
              Candidate(preset, frame), Freq(preset, frame), id, cb, t)

\* What startMicListening returns after its first loop() ran as r.
StartResult(r) == IF r.thrown THEN ErrorResult(CallbackError) ELSE NullResult

\* Variant of AfterStart that sets micActive whatever was returned.
AfterStart_ActiveAnyway(h, err) ==
    IF err # NullResult
    THEN [h EXCEPT !.micError = err, !.micActive = TRUE]
    ELSE [h EXCEPT !.micActive = TRUE, !.micError = NullResult]

\* toggleMic after 'await startMicListening(...)' returned err.
AfterStart(h, err) ==
    IF err # NullResult
    THEN [h EXCEPT !.micError = err]
    ELSE [h EXCEPT !.micActive = TRUE, !.micError = NullResult]

\* Variant of Deliver that calls the handler of the render that started
\* the mic, as when onNote itself is passed to startMicListening.
Deliver_Captured(captured, ref) == captured

\* The handler reached by the wrapper passed to startMicListening:
\* (noteName, octave) => onNoteRef.current(noteName, octave).
Deliver(captured, ref) == ref

\* The onNote callback of useMic on a fired note, for the call that was
\* started under the handler captured.
AfterNote(h, fired, captured) ==
    IF fired = NullNote \/ "render" \notin watch THEN h
    ELSE [h EXCEPT !.delivered = Deliver(captured, h.onNoteRef)]

\* The onHeard callback of useMic on the invocations of one loop().
AfterHeard(h, heard) ==
    IF heard = <<>> THEN h ELSE [h EXCEPT !.lastHeardNote = heard[Len(heard)]]

\* The event a run of loop() is observed as.
LoopEvent(op, r) ==
    [op |-> IF r.thrown THEN "throw" ELSE op,
     fired |-> r.fired, prev |-> r.prev, afterGap |-> r.afterGap,
     stopped |-> r.heardStopped \/ r.noteStopped, released |-> NoId,
     cand |-> IF "heard" \in watch THEN r.cand ELSE NullNote,
     onHeard |-> IF "heard" \in watch THEN r.onHeard ELSE TRUE,
     heard |-> IF "heard" \in watch THEN r.heard ELSE <<>>,
     err |-> IF r.thrown /\ op = "resolve" THEN CallbackError ELSE NoError,
     result |-> IF op # "resolve" THEN NoResult ELSE StartResult(r)]

\* The count of candidate frames per name, capped at 3, after a run r of
\* loop(): the frame's candidate is counted, an onNote invocation notes the
\* count of its name and starts the counts again, as does a stop.
SinceAfter(cnt, r) ==
    IF r.fired # NullNote
    THEN [cnt |-> NoSince.cnt,
          atFire |-> IF r.cand # NullNote /\ r.cand.name = r.fired.name /\ cnt[r.fired.name] < 3
                     THEN cnt[r.fired.name] + 1 ELSE cnt[r.fired.name]]
    ELSE [cnt |-> IF r.cand = NullNote \/ r.noteStopped \/ r.thrown THEN cnt
                  ELSE [cnt EXCEPT ![r.cand.name] = IF @ < 3 THEN @ + 1 ELSE @],
          atFire |-> 0]

\* The observers of the frame stream, after loop() ran on frame for a closure
\* started in mode; idle says that the gate tracked no note before.
Observe(r, frame, mode, idle) ==
    /\ run' = IF "run" \notin watch THEN NoRun
              ELSE IF r.heardStopped \/ r.noteStopped \/ r.thrown \/ r.supp
                      \/ r.cand = NullNote
              THEN NoRun
              ELSE IF idle THEN [note |-> r.cand, len |-> 1]
              ELSE IF run.len \in {1, 2} /\ r.cand = run.note
                   THEN [run EXCEPT !.len = @ + 1]
                   ELSE NoRun
    /\ same' = LET base == IF r.heardStopped \/ r.thrown THEN NoSame ELSE same
               IN IF "same" \notin watch THEN NoSame
                  ELSE IF r.cand = NullNote THEN base
                  ELSE IF r.cand.name = base.name
                       THEN [base EXCEPT !.n = IF @ < 3 THEN @ + 1 ELSE @]
                       ELSE [name |-> r.cand.name, n |-> 1]
    /\ since' = IF "since" \notin watch THEN NoSince
                ELSE SinceAfter(IF r.heardStopped THEN NoSince.cnt ELSE since.cnt, r)
    /\ sust' = IF "sust" \notin watch THEN SustOff
               ELSE IF r.heardStopped \/ r.noteStopped \/ r.thrown \/ ~sust.on
                  \/ frame # Loud(44000) \/ mode # "normal"
               THEN SustOff
               ELSE [on |-> TRUE,
                     ticks |-> IF sust.ticks < 3 THEN sust.ticks + 1 ELSE 3,
                     notes |-> IF r.fired # NullNote /\ sust.notes < 2
                               THEN sust.notes + 1 ELSE sust.notes]


(***************************************************************************)
(* Actions.                                                                *)
(***************************************************************************)
\* The closures that can still run: awaiting getUserMedia, or scheduled.
Alive(ls, fr) ==
    [i \in {j \in DOMAIN ls : ls[j].st = "gum" \/ j \in fr} |-> ls[i]]

\* The ids that name a call, a stream, a context or a frame handle that the
\* program or the browser still holds.
InUse ==
    DOMAIN loops \cup tracks \cup ctxs \cup frames
        \cup ({audioCtx, analyser, source, stream, rafId} \ {NoId}) \cup filterNodes

\* startMicListening up to its await. The call gets an id that is not in use.
StartCall(mode) ==
    /\ \E id \in 1..MaxCalls :
          /\ id \notin InUse
          /\ \A j \in 1..(id - 1) : j \in InUse
          /\ loops' = [i \in DOMAIN loops \cup {id} |->
                          IF i = id
                          THEN [mode |-> mode, st |-> "gum", onNote |-> hook.onNote]
                          ELSE loops[i]]
    /\ ev' = NoEvent
    /\ UNCHANGED <<sideVars, hook, variant, watch, now, modVars, tracks, ctxs, frames,
                   lastOnNote, gapSince, run, same, sust, since>>

\* The state after the lines between the await and the first loop() call.
Acquire(w, id) ==
    [w EXCEPT !.stream = id, !.tracks = @ \cup {id},
              !.audioCtx = id, !.ctxs = @ \cup {id},
              !.analyser = id, !.source = id,
              !.filterNodes = IF variant = "mpm" THEN {id} ELSE @]

\* A run r of loop() takes effect: the module state, the closures ls that
\* remain, the observers and, through its callbacks, useMic.
LoopStep(op, id, frame, cb, ls, r) ==
    /\ r.w.stableCount <= MaxStableCount
    /\ r.w.silenceFrames <= MaxSilenceFrames
    /\ cb \in {"stopInNote", "throwInNote"} => r.fired # NullNote
    /\ Commit(r.w)
    /\ loops' = Alive(ls, r.w.frames)
    /\ ev' = LoopEvent(op, r)
    /\ Observe(r, frame, loops[id].mode, stableNote = NullNote)
    /\ hook' = IF "hook" \notin watch THEN hook
               ELSE IF op = "resolve"
               THEN AfterStart(AfterNote(AfterHeard(hook, r.heard), r.fired,
                                         loops[id].onNote),
                               StartResult(r))
               ELSE AfterNote(AfterHeard(hook, r.heard), r.fired, loops[id].onNote)

\* getUserMedia resolves: the rest of startMicListening, first loop() included.
StartResolve(id, frame, cb) ==
    /\ id \in DOMAIN loops /\ loops[id].st = "gum"
    /\ frame \in Frames
    /\ cb \in Callbacks
    /\ cb \in {"stopInHeard", "throwInHeard"}
          => Candidate(Preset(loops[id].mode), frame) # NullNote
    /\ LoopStep("resolve", id, frame, cb, [loops EXCEPT ![id].st = "run"],
                loop(Acquire(World, id), id, Preset(loops[id].mode), frame, cb, now))
    /\ UNCHANGED <<sideVars, variant, watch, now>>

\* getUserMedia rejects: startMicListening returns an error string.
StartReject(id, err) ==
    /\ id \in DOMAIN loops /\ loops[id].st = "gum"
    /\ loops' = [i \in DOMAIN loops \ {id} |-> loops[i]]
    /\ ev' = IF watch \cap {"errors", "hook"} # {}
             THEN [NoEvent EXCEPT !.op = "reject", !.err = err,
                                  !.result = ErrorResult(err)]
             ELSE NoEvent
    /\ hook' = IF "hook" \in watch THEN AfterStart(hook, ErrorResult(err)) ELSE hook
    /\ UNCHANGED <<sideVars, variant, watch, now, modVars, tracks, ctxs, frames, lastOnNote,
                   gapSince, run, same, sust, since>>

\* getUserMedia resolves and the AudioContext constructor throws: stream is
\* assigned, the catch block returns an error string.
StartAudioFails(id) ==
    /\ id \in DOMAIN loops /\ loops[id].st = "gum"
    /\ stream' = id
    /\ tracks' = tracks \cup {id}
    /\ loops' = [i \in DOMAIN loops \ {id} |-> loops[i]]
    /\ ev' = [NoEvent EXCEPT !.op = "fail", !.err = AudioError,
                             !.result = ErrorResult(AudioError)]
    /\ hook' = IF "hook" \in watch THEN AfterStart(hook, ErrorResult(AudioError))
               ELSE hook
    /\ UNCHANGED <<sideVars, variant, watch, now, audioCtx, analyser, source, rafId,
                   filterNodes, lastFiredNote, lastFiredTime, suppressUntil,
                   stableNote, stableCount, silenceFrames, ctxs, frames,
                   lastOnNote, gapSince, run, same, sust, since>>

\* A pending animation frame runs loop().
Tick(id, frame, cb) ==
    /\ id \in frames
    /\ analyser # NoId
    /\ frame \in Frames
    /\ cb \in Callbacks
    /\ cb \in {"stopInHeard", "throwInHeard"}
          => Candidate(Preset(loops[id].mode), frame) # NullNote
    /\ LoopStep("tick", id, frame, cb, loops,
                loop([World EXCEPT !.frames = @ \ {id}], id,
                     Preset(loops[id].mode), frame, cb, now))
    /\ UNCHANGED <<sideVars, variant, watch, now>>

\* A pending animation frame runs loop() after stopMicListening() set
\* analyser to null: analyser.getFloatTimeDomainData throws and the closure
\* schedules no further frame.
TickThrows(id) ==
    /\ id \in frames
    /\ analyser = NoId
    /\ frames' = frames \ {id}
    /\ loops' = Alive(loops, frames')
    /\ ev' = [NoEvent EXCEPT !.op = "throw"]
    /\ UNCHANGED <<sideVars, hook, variant, watch, now, modVars, tracks, ctxs, lastOnNote,
                   gapSince, run, same, sust, since>>

\* stopMicListening() called outside a tick, observed as op.
StopCall(op) ==
    /\ LET w == stopMicListening(World)
       IN /\ Commit(w)
          /\ loops' = Alive(loops, w.frames)
    /\ ev' = [NoEvent EXCEPT !.op = op, !.stopped = TRUE,
                             !.released = stream]
    /\ run' = NoRun /\ same' = NoSame /\ since' = NoSince
    /\ sust' = IF "sust" \in watch THEN SustStart ELSE SustOff
    /\ UNCHANGED <<sideVars, variant, watch, now>>

\* stopMicListening() called by anyone.
Stop == StopCall("stop") /\ UNCHANGED hook

\* suppressMicListening(durationMs).
Suppress(durationMs) ==
    /\ suppressUntil' = now + durationMs
    /\ ev' = NoEvent
    /\ sust' = SustOff
    /\ UNCHANGED <<sideVars, hook, variant, watch, now, audioCtx, analyser, source, stream, rafId,
                   filterNodes, lastFiredNote, lastFiredTime, stableNote,
                   stableCount, silenceFrames, envVars, lastOnNote,
                   gapSince, run, same, since>>

\* Time passes.
Advance(t) ==
    /\ t \in ClockTimes
    /\ t > now
    /\ now' = t
    /\ ev' = NoEvent
    /\ UNCHANGED <<sideVars, hook, variant, watch, modVars, envVars, lastOnNote, gapSince, run, same, sust, since>>

Next ==
    \/ \E mode \in StartModes : StartCall(mode)
    \/ \E id \in 1..MaxCalls : \E frame \in AllFrames : \E cb \in AllCallbacks :
          StartResolve(id, frame, cb)
    \/ \E id \in 1..MaxCalls : \E err \in Errors : StartReject(id, err)
    \/ \E id \in 1..MaxCalls : \E frame \in AllFrames : \E cb \in AllCallbacks :
          Tick(id, frame, cb)
    \/ \E id \in 1..MaxCalls : TickThrows(id)
    \/ Stop
    \/ \E d \in SuppressDurations : Suppress(d)
    \/ \E t \in AllClockTimes : Advance(t)

Spec == Init /\ [][Next]_vars
SpecStable == InitStable /\ [][Next]_vars
SpecSust == InitSust /\ [][Next]_vars
SpecAll == InitAll /\ [][Next]_vars

\* The module with its failures: callbacks that throw (through Callbacks)
\* and an audio graph that cannot be built.
NextThrow ==
    \/ \E mode \in StartModes : StartCall(mode)
    \/ \E id \in 1..MaxCalls : StartAudioFails(id)
    \/ \E id \in 1..MaxCalls : \E frame \in AllFrames : \E cb \in AllCallbacks :
          StartResolve(id, frame, cb)
    \/ \E id \in 1..MaxCalls : \E err \in Errors : StartReject(id, err)
    \/ \E id \in 1..MaxCalls : \E frame \in AllFrames : \E cb \in AllCallbacks :
          Tick(id, frame, cb)
    \/ \E id \in 1..MaxCalls : TickThrows(id)
    \/ Stop
    \/ \E d \in SuppressDurations : Suppress(d)
    \/ \E t \in AllClockTimes : Advance(t)

SpecThrow == InitThrow /\ [][NextThrow]_vars
SpecHeard == InitHeard /\ [][Next]_vars
SpecSince == InitSince /\ [][Next]_vars
SpecGapHeard == InitGapHeard /\ [][Next]_vars

(***************************************************************************)
(* useMic: the module driven through the hook.                             *)
(***************************************************************************)
\* toggleMic: stops when micActive, otherwise starts in the selected mode and
\* continues when startMicListening returns (StartResolve, StartReject).
ToggleMic ==
    IF hook.micActive
    THEN /\ StopCall("toggleStop")
         /\ hook' = [hook EXCEPT !.micActive = FALSE, !.micError = NullResult,
                                 !.lastHeardNote = NullHeard]
    ELSE StartCall(hook.micMode)

\* The sensitivity selector, disabled while micActive.
SetMicMode(mode) ==
    /\ ~hook.micActive
    /\ mode # hook.micMode
    /\ hook' = [hook EXCEPT !.micMode = mode]
    /\ ev' = NoEvent
    /\ UNCHANGED <<sideVars, variant, watch, now, modVars, envVars, lastOnNote,
                   gapSince, run, same, sust, since>>

\* The songComplete argument turning true, and the effect that depends on it:
\* it stops the session only when micActive is true at that render.
SongComplete ==
    /\ ~hook.songComplete
    /\ IF hook.micActive
       THEN /\ StopCall("songComplete")
            /\ hook' = [hook EXCEPT !.songComplete = TRUE, !.micActive = FALSE]
       ELSE /\ hook' = [hook EXCEPT !.songComplete = TRUE]
            /\ ev' = NoEvent
            /\ UNCHANGED <<sideVars, variant, watch, now, modVars, envVars,
                           lastOnNote, gapSince, run, same, sust, since>>

\* startNewSong: songComplete turns false; the effect runs and does nothing.
NewSong ==
    /\ hook.songComplete
    /\ hook' = [hook EXCEPT !.songComplete = FALSE]
    /\ ev' = NoEvent
    /\ UNCHANGED <<sideVars, variant, watch, now, modVars, envVars,
                   lastOnNote, gapSince, run, same, sust, since>>

NextHook ==
    \/ ToggleMic
    \/ \E mode \in Modes : SetMicMode(mode)
    \/ SongComplete
    \/ NewSong
    \/ \E id \in 1..MaxCalls : \E frame \in AllFrames : \E cb \in AllCallbacks :
          StartResolve(id, frame, cb)
    \/ \E id \in 1..MaxCalls : \E err \in Errors : StartReject(id, err)
    \/ \E id \in 1..MaxCalls : \E frame \in AllFrames : \E cb \in AllCallbacks :
          Tick(id, frame, cb)
    \/ \E id \in 1..MaxCalls : TickThrows(id)

SpecHook == InitHook /\ [][NextHook]_vars

\* useMic renders with a new onNote: the assignment onNoteRef.current = onNote.
Render ==
    /\ hook.onNote < MaxRenders
    /\ hook' = [hook EXCEPT !.onNote = @ + 1, !.onNoteRef = hook.onNote + 1]
    /\ ev' = NoEvent
    /\ UNCHANGED <<sideVars, variant, watch, now, modVars, envVars, lastOnNote,
                   gapSince, run, same, sust, since>>

InitRender == Start("yin", {"hook", "render"}) /\ NoSide

NextRender ==
    \/ ToggleMic
    \/ Render
    \/ SongComplete
    \/ NewSong
    \/ \E id \in 1..MaxCalls : \E frame \in AllFrames : \E cb \in AllCallbacks :
          StartResolve(id, frame, cb)
    \/ \E id \in 1..MaxCalls : \E err \in Errors : StartReject(id, err)
    \/ \E id \in 1..MaxCalls : \E frame \in AllFrames : \E cb \in AllCallbacks :
          Tick(id, frame, cb)
    \/ \E id \in 1..MaxCalls : TickThrows(id)

SpecRender == InitRender /\ [][NextRender]_vars

(***************************************************************************)
(* The hook inside App: the mic button is rendered only while the song is  *)
(* not complete. A pending getUserMedia settles and a scheduled frame      *)
(* runs, so both are weakly fair (the second stated on the event it        *)
(* leaves); the user's actions are not.                                    *)
(***************************************************************************)
AppToggleMic == ~hook.songComplete /\ ToggleMic

Settle ==
    \/ \E id \in 1..MaxCalls : \E frame \in AllFrames : \E cb \in AllCallbacks :
          StartResolve(id, frame, cb)
    \/ \E id \in 1..MaxCalls : \E err \in Errors : StartReject(id, err)

\* requestAnimationFrame: a frame is scheduled; a scheduled frame has run.
FramePending == frames # {}
FrameRan == ev'.op \in {"tick", "throw"}

NextApp ==
    \/ AppToggleMic
    \/ SongComplete
    \/ NewSong
    \/ \E id \in 1..MaxCalls : \E frame \in AllFrames : \E cb \in AllCallbacks :
          StartResolve(id, frame, cb)
    \/ \E id \in 1..MaxCalls : \E err \in Errors : StartReject(id, err)
    \/ \E id \in 1..MaxCalls : \E frame \in AllFrames : \E cb \in AllCallbacks :
          Tick(id, frame, cb)
    \/ \E id \in 1..MaxCalls : TickThrows(id)

SpecApp ==
    /\ InitHook /\ [][NextApp]_vars
    /\ WF_vars(Settle)
    /\ ([]<>(~FramePending) \/ []<><<FrameRan>>_vars)

(***************************************************************************)
(* freqToNote on its own: the arguments are drawn at the start, the call   *)
(* returns in one step.                                                    *)
(***************************************************************************)
InitNote ==
    /\ Start("yin", {})
    /\ hook = HookInit
    /\ NoApp
    /\ \E freq \in NoteFreqs : \E snapTolerance \in Tolerances :
          call = [freq |-> freq, snapTolerance |-> snapTolerance,
                  done |-> FALSE, result |-> NullNote]

FreqToNoteCall ==
    /\ ~call.done
    /\ call' = [call EXCEPT !.done = TRUE,
                            !.result = freqToNote(call.freq, call.snapTolerance)]
    /\ UNCHANGED <<micVars, hook, appVars>>

NextNote == FreqToNoteCall

SpecNote == InitNote /\ [][NextNote]_vars

(***************************************************************************)
(* useSongGame inside App. Each handleAnswer call finds the state of the   *)
(* last render, as React re-renders between the events that call it.       *)
(***************************************************************************)
NoteNames == {"C", "D"}
Songs == UNION {[1..n -> [note : NoteNames]] : n \in 1..MaxSongLen}
NoAnswer == "null"

checkAnswer(targetNote, clickedNoteName) == targetNote.note = clickedNoteName

\* startNewSong and the mount effect: the state of a song not yet answered.
startNewSong(notes) ==
    [song |-> notes, currentIndex |-> 0,
     results |-> [i \in 1..Len(notes) |-> NoAnswer],
     hasWrongAttempt |-> FALSE, songComplete |-> FALSE]

\* The current note gets the result r: the next note, or finishSong.
Resolve(g, r) ==
    LET next == g.currentIndex + 1
    IN [g EXCEPT !.results = [@ EXCEPT ![g.currentIndex + 1] = r],
                 !.hasWrongAttempt = FALSE,
                 !.currentIndex = IF next >= Len(g.song) THEN @ ELSE next,
                 !.songComplete = IF next >= Len(g.song) THEN TRUE ELSE @]

\* Variant of handleAnswer without the second attempt.
handleAnswer_NoSecondChance(g, noteName) ==
    IF g.songComplete \/ Len(g.song) = 0 \/ g.currentIndex >= Len(g.song)
    THEN g
    ELSE IF checkAnswer(g.song[g.currentIndex + 1], noteName)
         THEN Resolve(g, "correct")
         ELSE Resolve(g, "incorrect")

\* handleAnswer(noteName) on the state g (currentIndex counts from 0).
handleAnswer(g, noteName) ==
    IF g.songComplete \/ Len(g.song) = 0 \/ g.currentIndex >= Len(g.song)
    THEN g
    ELSE IF checkAnswer(g.song[g.currentIndex + 1], noteName)
         THEN Resolve(g, "correct")
         ELSE IF ~g.hasWrongAttempt
              THEN [g EXCEPT !.hasWrongAttempt = TRUE]
              ELSE Resolve(g, "incorrect")

\* Variant of sessionStats that scores a note answered at the second attempt.
sessionStats_ScoresRetry(st, g, noteName) ==
    IF g.songComplete \/ Len(g.song) = 0 \/ g.currentIndex >= Len(g.song)
    THEN st
    ELSE IF checkAnswer(g.song[g.currentIndex + 1], noteName)
         THEN [st EXCEPT !.sessionTotal = @ + 1, !.sessionScore = @ + 1,
                         !.sessionStreak = IF ~g.hasWrongAttempt THEN @ + 1 ELSE 0]
         ELSE IF ~g.hasWrongAttempt THEN st
              ELSE [st EXCEPT !.sessionTotal = @ + 1, !.sessionStreak = 0]

\* The session statistics after handleAnswer(noteName) on the state g.
sessionStats(st, g, noteName) ==
    IF g.songComplete \/ Len(g.song) = 0 \/ g.currentIndex >= Len(g.song)
    THEN st
    ELSE IF checkAnswer(g.song[g.currentIndex + 1], noteName)
         THEN IF ~g.hasWrongAttempt
              THEN [st EXCEPT !.sessionTotal = @ + 1, !.sessionScore = @ + 1,
                              !.sessionStreak = @ + 1]
              ELSE [st EXCEPT !.sessionTotal = @ + 1, !.sessionStreak = 0]
         ELSE IF ~g.hasWrongAttempt THEN st
              ELSE [st EXCEPT !.sessionTotal = @ + 1, !.sessionStreak = 0]

\* JSON.parse of the stored item, [] when there is none or it does not parse.
loadRecords(item) == IF item.kind = "json" THEN item.recs ELSE <<>>

\* App mounts: the mount effect starts a song, records are loaded once.
InitGame ==
    /\ Start("yin", {})
    /\ call = NoArgs /\ hook = HookInit
    /\ \E notes \in Songs : game = startNewSong(notes)
    /\ closure = game
    /\ storage = NoItem
    /\ records = loadRecords(storage)
    /\ stats = NoStats
    /\ sel = NoSel
    /\ appEv = [op |-> "mount", noteName |-> NoAnswer, tries |-> 0,
                resolved |-> 0, firstTry |-> 0]

\* An answer from the piano, the keyboard or the mic. App calls useSongGame()
\* without onSongComplete, so finishSong's onSongComplete?.() calls nothing,
\* and App never sets its records state.
HandleAnswer(noteName) ==
    /\ game' = handleAnswer(game, noteName)
    /\ closure' = game'
    /\ stats' = sessionStats(stats, game, noteName)
    /\ stats'.sessionTotal <= MaxResolved
    /\ sel' = sel
    /\ appEv' = IF game.songComplete
                THEN [appEv EXCEPT !.op = "ignored", !.noteName = noteName,
                                   !.tries = 0]
                ELSE [op |-> "answer", noteName |-> noteName,
                      tries |-> IF game'.currentIndex # game.currentIndex
                                   \/ game'.songComplete
                                THEN 0 ELSE appEv.tries + 1,
                      resolved |-> IF game'.results # game.results
                                   THEN appEv.resolved + 1 ELSE appEv.resolved,
                      firstTry |-> IF game'.results # game.results
                                      /\ ~game.hasWrongAttempt
                                      /\ game'.results[game.currentIndex + 1] = "correct"
                                   THEN appEv.firstTry + 1 ELSE appEv.firstTry]
    /\ UNCHANGED <<micVars, hook, call, storage, records>>

\* The New Song button of the result card, or the song picker.
StartNewSong(notes) ==
    /\ game' = startNewSong(notes)
    /\ closure' = game'
    /\ appEv' = [appEv EXCEPT !.op = "newSong", !.noteName = NoAnswer, !.tries = 0]
    /\ UNCHANGED <<micVars, hook, call, storage, records, stats, sel>>

NextGame ==
    \/ \E noteName \in NoteNames : HandleAnswer(noteName)
    \/ \E notes \in Songs : StartNewSong(notes)

SpecGame == InitGame /\ [][NextGame]_vars

(***************************************************************************)
(* useSongGame with answers that arrive before the hook re-renders:        *)
(* handleAnswer is the closure of the last render and reads that render's  *)
(* state; its setters write the state the next render will show.           *)
(***************************************************************************)
\* The branch of handleAnswer that c and noteName select.
Branch(c, noteName) ==
    IF c.songComplete \/ Len(c.song) = 0 \/ c.currentIndex >= Len(c.song)
    THEN "return"
    ELSE IF checkAnswer(c.song[c.currentIndex + 1], noteName) THEN "correct"
    ELSE IF ~c.hasWrongAttempt THEN "first wrong"
    ELSE "second wrong"

\* finishSong is called: the branch resolves the last note of the closure.
Finishes(c, noteName) ==
    /\ Branch(c, noteName) \in {"correct", "second wrong"}
    /\ c.currentIndex + 1 >= Len(c.song)

\* The state g after the setters that handleAnswer, reading c, calls.
SetState(g, c, noteName) ==
    LET n == handleAnswer(c, noteName)
    IN CASE Branch(c, noteName) = "return" -> g
         [] Branch(c, noteName) = "first wrong" ->
               [g EXCEPT !.hasWrongAttempt = TRUE]
         [] OTHER ->
               [g EXCEPT !.results = n.results,
                         !.hasWrongAttempt = FALSE,
                         !.currentIndex = IF Finishes(c, noteName) THEN @
                                          ELSE n.currentIndex,
                         !.songComplete = IF Finishes(c, noteName) THEN TRUE
                                          ELSE @]

InitStale ==
    /\ Start("yin", {})
    /\ call = NoArgs /\ hook = HookInit
    /\ \E notes \in Songs : game = startNewSong(notes)
    /\ closure = game
    /\ storage = NoItem
    /\ records = loadRecords(storage)
    /\ stats = NoStats
    /\ sel = NoSel
    /\ appEv = [op |-> "mount", noteName |-> NoAnswer, finished |-> 0]

\* handleAnswer(noteName) called on the closure of the last render.
AnswerBeforeRender(noteName) ==
    /\ Finishes(closure, noteName) => appEv.finished < MaxFinished
    /\ game' = SetState(game, closure, noteName)
    /\ appEv' = [op |-> "answer", noteName |-> noteName,
                 finished |-> IF Finishes(closure, noteName)
                              THEN appEv.finished + 1 ELSE appEv.finished]
    /\ UNCHANGED <<micVars, hook, call, closure, storage, records, stats, sel>>

\* The hook re-renders: handleAnswer is created anew from the state.
RenderGame ==
    /\ closure # game
    /\ closure' = game
    /\ appEv' = [appEv EXCEPT !.op = "render"]
    /\ UNCHANGED <<micVars, hook, call, game, storage, records, stats, sel>>

\* startNewSong, and the render that follows the click.
NewSongRendered(notes) ==
    /\ closure = game
    /\ game' = startNewSong(notes)
    /\ closure' = game'
    /\ appEv' = [op |-> "newSong", noteName |-> NoAnswer, finished |-> 0]
    /\ UNCHANGED <<micVars, hook, call, storage, records, stats, sel>>

NextStale ==
    \/ \E noteName \in NoteNames : AnswerBeforeRender(noteName)
    \/ RenderGame
    \/ \E notes \in Songs : NewSongRendered(notes)

SpecStale == InitStale /\ [][NextStale]_vars

(***************************************************************************)
(* recordUtils on its own: saveRecord calls on a stored history.           *)
(***************************************************************************)
MAX_RECORDS == 50
\* An elapsedMs that is NaN, and the null JSON.stringify writes for it.
NaN == -1
JsonNull == -2
Runs == [elapsedMs : {4000, NaN}, score : {7}, total : {8}, songLength : {8},
         title : {"", "Ode"}]

\* A history of n earlier runs, newest first.
Filled(n) ==
    [i \in 1..n |-> [id |-> StartClock - i, date |-> StartClock - i,
                     elapsedMs |-> 5000, score |-> 5, total |-> 8,
                     songLength |-> 8, title |-> "Old"]]

\* JSON.stringify(updated): the item that localStorage.setItem stores.
JSONstringify(updated) ==
    [kind |-> "json",
     recs |-> [i \in DOMAIN updated |->
                 [updated[i] EXCEPT !.elapsedMs = IF @ = NaN THEN JsonNull ELSE @]]]

\* The entry saveRecord builds at Date.now() = t.
Entry(run_, t) ==
    [id |-> t, date |-> t, elapsedMs |-> run_.elapsedMs, score |-> run_.score,
     total |-> run_.total, songLength |-> run_.songLength,
     title |-> IF run_.title = "" THEN "Random" ELSE run_.title]

\* Variant of saveRecord that keeps every record.
saveRecord_NoLimit(run_, item, t) == <<Entry(run_, t)>> \o loadRecords(item)

\* The array saveRecord returns: [entry, ...records].slice(0, MAX_RECORDS).
saveRecord(run_, item, t) ==
    LET all == <<Entry(run_, t)>> \o loadRecords(item)
    IN SubSeq(all, 1, IF Len(all) < MAX_RECORDS THEN Len(all) ELSE MAX_RECORDS)

InitRecords ==
    /\ Start("yin", {})
    /\ call = NoArgs /\ hook = HookInit
    /\ game = NoGame /\ stats = NoStats /\ sel = NoSel /\ closure = NoGame
    /\ records = <<>>
    /\ storage \in {NoItem, Corrupt, JSONstringify(Filled(MAX_RECORDS - 1)),
                    JSONstringify(Filled(MAX_RECORDS))}
    /\ appEv = [op |-> "none", returned |-> <<>>, written |-> FALSE,
                dropped |-> FALSE, n |-> 0]

\* saveRecord(run_) after dt ms; localStorage.setItem stores the item or
\* throws (storage full), which saveRecord ignores.
SaveRecord(run_, written, dt) ==
    /\ appEv.n < MaxSaves
    /\ now' = now + dt
    /\ storage' = IF written THEN JSONstringify(saveRecord(run_, storage, now'))
                  ELSE storage
    /\ appEv' = [op |-> "save", returned |-> saveRecord(run_, storage, now'),
                 written |-> written,
                 dropped |-> Len(loadRecords(storage)) = MAX_RECORDS,
                 n |-> appEv.n + 1]
    /\ UNCHANGED <<variant, watch, modVars, envVars, obsVars, hook, call,
                   game, stats, sel, closure, records>>

NextRecords ==
    \E run_ \in Runs : \E written \in BOOLEAN : \E dt \in {0, 1} :
        SaveRecord(run_, written, dt)

SpecRecords == InitRecords /\ [][NextRecords]_vars


(***************************************************************************)
(* Clef and song selection of useSongGame.  A note is its name and octave; *)
(* the pools are cut down to three notes and the library to two songs per  *)
(* clef, and a generated song to WINDOW notes.                             *)
(***************************************************************************)

TREBLE_NOTES ==
    {[note |-> "C", octave |-> 4], [note |-> "G", octave |-> 4],
     [note |-> "C", octave |-> 5]}
BASS_NOTES ==
    {[note |-> "G", octave |-> 2], [note |-> "C", octave |-> 3],
     [note |-> "G", octave |-> 3]}

\* NOTE_POOLS[clef] || TREBLE_NOTES
NOTE_POOLS(clef) ==
    IF clef = "treble" THEN TREBLE_NOTES
    ELSE IF clef = "bass" THEN BASS_NOTES
    ELSE TREBLE_NOTES

NoSong == [id |-> "null", clef |-> "null", notes |-> <<>>]
TREBLE_SONGS ==
    {[id |-> "twinkle", clef |-> "treble",
      notes |-> <<[note |-> "C", octave |-> 4], [note |-> "C", octave |-> 4],
                  [note |-> "G", octave |-> 4]>>],
     [id |-> "ode", clef |-> "treble",
      notes |-> <<[note |-> "G", octave |-> 4], [note |-> "G", octave |-> 4],
                  [note |-> "C", octave |-> 5]>>]}
BASS_SONGS ==
    {[id |-> "bass-scale", clef |-> "bass",
      notes |-> <<[note |-> "G", octave |-> 2], [note |-> "C", octave |-> 3],
                  [note |-> "G", octave |-> 2]>>],
     [id |-> "bass-ode", clef |-> "bass",
      notes |-> <<[note |-> "C", octave |-> 3], [note |-> "C", octave |-> 3],
                  [note |-> "G", octave |-> 3]>>]}
ALL_SONGS == TREBLE_SONGS \cup BASS_SONGS
SONGS_BY_CLEF(clef) == IF clef = "treble" THEN TREBLE_SONGS ELSE BASS_SONGS

\* Values an argument can have besides a clef or a list of notes.
Undefined == "undefined"
JsNull == "null"
ClickEvent == "[object Object]"
NoNotes == [kind |-> Undefined, notes |-> <<>>]
NullNotes == [kind |-> JsNull, notes |-> <<>>]
Forced(notes) == [kind |-> "notes", notes |-> notes]

\* The songs generateSong(length, clef) can return: notes of the clef's
\* pool, no two consecutive ones equal.
generateSong(length, clef) ==
    {ns \in [1..length -> NOTE_POOLS(clef)] :
        \A i \in 1..(length - 1) : ns[i] # ns[i + 1]}

\* The songs startNewSong(clefOverride, forcedNotes) can set, called in a
\* render whose clef and selectedSong are those of s.
startNewSongNotes(s, clefOverride, forcedNotes) ==
    LET c == IF clefOverride \in {Undefined, JsNull} THEN s.clef ELSE clefOverride
    IN  IF forcedNotes.kind # Undefined
        THEN IF forcedNotes.kind = JsNull THEN generateSong(WINDOW, c)
             ELSE {forcedNotes.notes}
        ELSE IF s.selectedSong # NoSong THEN {s.selectedSong.notes}
             ELSE generateSong(WINDOW, c)

InitClef ==
    /\ Start("yin", {})
    /\ call = NoArgs /\ hook = HookInit
    /\ game = NoGame /\ stats = NoStats /\ closure = NoGame
    /\ storage = NoItem /\ records = <<>>
    /\ \E notes \in generateSong(WINDOW, "treble") :
          sel = [clef |-> "treble", selectedSong |-> NoSong, song |-> notes,
                 songComplete |-> FALSE]
    /\ appEv = [op |-> "mount"]

ClefUnchanged ==
    UNCHANGED <<micVars, hook, call, game, stats, closure, storage, records>>

\* The clef button: handleClefChange(newClef).
HandleClefChange(newClef) ==
    /\ \E notes \in startNewSongNotes(sel, newClef, NullNotes) :
          sel' = [clef |-> newClef, selectedSong |-> NoSong, song |-> notes,
                  songComplete |-> FALSE]
    /\ appEv' = [op |-> "clef"]
    /\ ClefUnchanged

\* The song picker: handleSelectSong(s).
HandleSelectSong(s) ==
    /\ \E notes \in startNewSongNotes(sel, s.clef, Forced(s.notes)) :
          sel' = [clef |-> s.clef, selectedSong |-> s, song |-> notes,
                  songComplete |-> FALSE]
    /\ appEv' = [op |-> "select"]
    /\ ClefUnchanged

\* The random button: handleRandomSong().
HandleRandomSong ==
    /\ \E notes \in startNewSongNotes(sel, sel.clef, NullNotes) :
          sel' = [sel EXCEPT !.selectedSong = NoSong, !.song = notes,
                             !.songComplete = FALSE]
    /\ appEv' = [op |-> "random"]
    /\ ClefUnchanged

\* The last note of the song is resolved: finishSong().
FinishSong ==
    /\ ~sel.songComplete
    /\ sel' = [sel EXCEPT !.songComplete = TRUE]
    /\ appEv' = [op |-> "finish"]
    /\ ClefUnchanged

\* The New Song button of SongResultCard: onClick = startNewSong, called
\* with the click event.
NewSongClick ==
    /\ sel.songComplete
    /\ \E notes \in startNewSongNotes(sel, ClickEvent, NoNotes) :
          sel' = [sel EXCEPT !.song = notes, !.songComplete = FALSE]
    /\ appEv' = [op |-> "newSong"]
    /\ ClefUnchanged

NextClef ==
    \/ \E newClef \in {"treble", "bass"} : HandleClefChange(newClef)
    \/ \E s \in ALL_SONGS : HandleSelectSong(s)
    \/ HandleRandomSong
    \/ FinishSong
    \/ NewSongClick

SpecClef == InitClef /\ [][NextClef]_vars

(***************************************************************************)
(* Properties.                                                             *)
(***************************************************************************)
LoopOps == {"resolve", "tick"}
A4 == [name |-> "A", octave |-> 4]

\* The candidate of every frequency under every preset is null or natural.
NaturalCandidates ==
    \A f \in Freqs, mode \in Modes :
        LET n == freqToNote(f, MIC_PRESETS(mode).snapTolerance)
        IN n = NullNote \/ n.name \in Naturals7

\* C1: every onNote invocation of the mic loop carries a natural note name,
\* A to G: whatever the frames, suppress calls and stop/start calls, no
\* sharp or flat name is emitted.
C1_OnlyNaturalNotes ==
    /\ ev.fired # NullNote => ev.fired.name \in Naturals7
    /\ lastOnNote # NoCall => lastOnNote.name \in Naturals7
    /\ NaturalCandidates

\* A tick has just invoked onNote with a natural note.
C1_Witness == ev.op \in LoopOps /\ ev.fired # NullNote /\ ev.fired.name = "C"

\* No cooldown blocks the note name at the clock reading of the step.
CoolFree(name) ==
    /\ now' - lastFiredTime >= AnyCooldown
    /\ (lastFiredNote # name \/ now' - lastFiredTime > SameCooldown)

C3_Original ==
    sust.on => (sust.ticks < 3 => sust.notes = 0) /\ (sust.ticks = 3 => sust.notes = 1)

\* C3: a session that hears A4 in every frame under the normal preset
\* invokes onNote('A', 4) on its third frame and not before, and invokes it
\* again only when more than SAME_NOTE_COOLDOWN_MS have passed since the
\* previous invocation.
C3_SustainedTone ==
    [][sust'.on =>
          /\ sust'.ticks < 3 => sust'.notes = 0
          /\ sust'.ticks = 3 => sust'.notes >= 1
          /\ ev'.fired # NullNote =>
                /\ ev'.fired = A4
                /\ ev'.prev # NoCall =>
                      now' - ev'.prev.t > SAME_NOTE_COOLDOWN_MS]_vars

\* The sustained tone has fired a second time.
C3_Witness == sust.on /\ sust.notes = 2 /\ ev.fired = A4

\* C4: when onNote is invoked for the name of the previous invocation of the
\* session and no silence gap occurred in between, more than the same-note
\* cooldown has passed since that invocation.
C4_SameNoteCooldown ==
    (ev.fired # NullNote /\ ev.prev.name = ev.fired.name /\ ~ev.afterGap)
        => now - ev.prev.t > SameCooldown

\* The same name has just fired again, with no silence gap in between.
C4_Witness ==
    ev.fired # NullNote /\ ev.prev.name = ev.fired.name /\ ~ev.afterGap

\* C5: once a silence gap has cleared lastFiredNote after a firing, a tick
\* that leaves a candidate run at the stability threshold unfired was held
\* back by the any-note cooldown alone: the same-note cooldown no longer
\* applies, so the note fires again within it.
C5_SilenceGapRefire ==
    (ev.op \in LoopOps /\ gapSince /\ stableCount >= StableFrames)
        => now - lastFiredTime < AnyCooldown

\* After a silence gap a run of loud frames has just fired the same note
\* again within the same-note cooldown.
C5_Witness ==
    /\ ev.fired # NullNote /\ ev.afterGap /\ silenceFrames = 0
    /\ ev.prev.name = ev.fired.name
    /\ now - ev.prev.t <= SameCooldown

\* C6: an onNote invocation comes at least the any-note cooldown after the
\* previous invocation of the session, whatever the two notes are.
C6_AnyNoteCooldown ==
    (ev.fired # NullNote /\ ev.prev # NoCall) => now - ev.prev.t >= AnyCooldown

\* A different note has just fired exactly one any-note cooldown after the
\* previous one.
C6_Witness ==
    /\ ev.fired # NullNote /\ ev.prev # NoCall
    /\ ev.prev.name # ev.fired.name
    /\ now - ev.prev.t = AnyCooldown

\* C7 as stated: at most one microphone stream is open and at most one
\* polling loop is scheduled.
C7_OneSession == Cardinality(tracks) <= 1 /\ Cardinality(frames) <= 1

\* C8 as stated: when stopMicListening() has returned and the next step is
\* not a start call, no stream is live after that step and it opens none.
C8_StopIsFinal ==
    [][(ev.op = "stop" /\ DOMAIN loops' \subseteq DOMAIN loops)
          => (stream' = NoId /\ tracks' \subseteq tracks)]_vars

\* C9 as stated: a tick whose callback called stopMicListening() ends with
\* rafId null and no frame scheduled.
C9_StopInsideTick ==
    (ev.op = "tick" /\ ev.stopped) => (rafId = NoId /\ frames = {})

\* C10: stopMicListening() called outside a tick leaves stream, audioCtx,
\* source, analyser and rafId null, the stream's tracks stopped and its
\* context closed, and the gate variables at their initial values.
C10_StopResets ==
    ev.op = "stop" =>
        /\ stream = NoId /\ audioCtx = NoId /\ source = NoId
        /\ analyser = NoId /\ rafId = NoId
        /\ ev.released # NoId => (ev.released \notin tracks /\ ev.released \notin ctxs)
        /\ lastFiredNote = NullName /\ lastFiredTime = 0 /\ suppressUntil = 0
        /\ stableNote = NullNote /\ stableCount = 0 /\ silenceFrames = 0

\* stopMicListening() has just released a live stream.
C10_Witness == ev.op = "stop" /\ ev.released # NoId

\* C11: stopMicListening() with no session active, or called again right
\* after a stopMicListening(), changes nothing and raises no error, and in
\* every state two calls in a row leave what one call leaves.
C11_StopIdempotent ==
    /\ stopMicListening(stopMicListening(World)) = stopMicListening(World)
    /\ ev.op = "stop" => stopMicListening(World) = World
    /\ (stream = NoId /\ audioCtx = NoId /\ source = NoId /\ analyser = NoId
        /\ rafId = NoId /\ filterNodes = {})
          => LET w == stopMicListening(World)
             IN /\ w.tracks = tracks /\ w.ctxs = ctxs /\ w.frames = frames
                /\ w.stream = NoId /\ w.audioCtx = NoId /\ w.source = NoId
                /\ w.analyser = NoId /\ w.rafId = NoId

\* stopMicListening() has just returned with no session to release.
C11_Witness == ev.op = "stop" /\ ev.released = NoId /\ tracks = {} /\ frames = {}

\* C12: a tick that reads the clock inside the suppression window invokes no
\* onNote, ends with stableNote null and stableCount 0, leaves lastFiredTime
\* and the audio resources as they were, and schedules the next frame.
C12_SuppressionWindow ==
    [][(ev'.op \in LoopOps /\ ~ev'.stopped /\ now < suppressUntil) =>
          /\ ev'.fired = NullNote
          /\ stableNote' = NullNote /\ stableCount' = 0
          /\ lastFiredTime' = lastFiredTime
          /\ rafId' # NoId /\ rafId' \in frames'
          /\ ev'.op = "tick" =>
                /\ audioCtx' = audioCtx /\ analyser' = analyser
                /\ source' = source /\ stream' = stream
                /\ filterNodes' = filterNodes
                /\ tracks' = tracks /\ ctxs' = ctxs]_vars

\* A tick inside the suppression window has just run, after a note had fired.
C12_Witness ==
    ev.op = "tick" /\ ~ev.stopped /\ now < suppressUntil /\ lastFiredTime # 0

\* C13: a tick in which the buffer read, the pitch detector or a callback
\* throws still schedules the next frame of its loop.
C13_FailuresContained ==
    [][(ev'.op = "throw" /\ ev'.result = NoResult)
          => frames \subseteq frames' /\ rafId' \in frames']_vars

\* C14: every startMicListening call that ends returns a value: null exactly
\* when the stream was acquired and the loop scheduled, the access-denied
\* message exactly when the failure is named NotAllowedError, and
\* "Microphone error: <message>" for every other failure.
C14_StartNeverRejects ==
    [][\A id \in DOMAIN loops :
          (loops[id].st = "gum" /\ (id \notin DOMAIN loops' \/ loops'[id].st # "gum"))
             => /\ ev'.result # NoResult
                /\ ev'.result = NullResult <=> ev'.err = NoError
                /\ ev'.result = NullResult <=> id \in frames'
                /\ ev'.result = NullResult => id \in tracks' \/ ev'.stopped
                /\ ev'.result = DeniedMessage <=> ev'.err.name = "NotAllowedError"
                /\ (ev'.err # NoError /\ ev'.err.name # "NotAllowedError")
                      => ev'.result = "Microphone error: " \o ev'.err.message]_vars

\* getUserMedia was refused and startMicListening returned the denial message.
C14_Witness == ev.op = "reject" /\ ev.result = DeniedMessage

\* C15: freqToNote returns null for every frequency below 27 Hz and every
\* frequency above 4200 Hz at any tolerance; 27 Hz and 4200 Hz pass the range
\* check and map to A0 and C8 when the tolerance admits the distance.
C15_RangeCheck ==
    call.done =>
       /\ (call.freq < 2700 \/ call.freq > 420000) => call.result = NullNote
       /\ (call.freq = 2700 /\ call.snapTolerance >= 3500)
             => call.result = [name |-> "A", octave |-> 0]
       /\ call.freq = 420000 => call.result = [name |-> "C", octave |-> 8]

\* freqToNote returned null for 4200.01 Hz, 0.06 semitone above C8.
C15_Witness == call.done /\ call.freq = 420001 /\ call.result = NullNote

NaturalMidis == {m \in 21..108 : ~IsSharp(NoteNameOf(m))}
NoteOf(m) == [name |-> NoteNameOf(m), octave |-> (m \div 12) - 1]
\* The pitch of the call's frequency is within 0.5 semitone of the note m.
Within(m) == Abs(MidiFloat(call.freq) - m * 10000) <= 5000

\* C16 as stated: every frequency within 0.5 semitone of a natural N, ends
\* included, maps to N when the tolerance is at least 0.5.
C16_Original ==
    (call.done /\ call.snapTolerance >= 5000) =>
       \A m \in NaturalMidis : Within(m) => call.result = NoteOf(m)

\* C16: a frequency between 27 Hz and 4200 Hz within 0.5 semitone of a
\* natural N maps to N when the tolerance is at least 0.5, except exactly
\* midway between two adjacent naturals (B and C, E and F), where it maps to
\* the lower of the two.
C16_SnapToNatural ==
    (call.done /\ call.snapTolerance >= 5000
       /\ call.freq >= 2700 /\ call.freq <= 420000) =>
       \A m \in NaturalMidis :
          Within(m) =>
             IF MidiFloat(call.freq) = m * 10000 - 5000 /\ (m - 1) \in NaturalMidis
             THEN call.result = NoteOf(m - 1)
             ELSE call.result = NoteOf(m)

\* freqToNote returned B7 for the frequency midway between B7 and C8 at
\* tolerance 0.5.
C16_Witness ==
    /\ call.done /\ call.snapTolerance = 5000
    /\ MidiFloat(call.freq) = 1075000
    /\ call.result = [name |-> "B", octave |-> 7]

\* C17: a frequency whose pitch is exactly an accidental maps to null at
\* every tolerance below 1 semitone.
C17_SharpIsNull ==
    (call.done /\ call.snapTolerance < 10000
       /\ MidiFloat(call.freq) % 10000 = 0
       /\ IsSharp(NoteNameOf(MidiFloat(call.freq) \div 10000)))
          => call.result = NullNote

\* freqToNote returned null for A#7 at tolerance 0.9999.
C17_Witness ==
    /\ call.done /\ call.freq = 372931 /\ call.snapTolerance = 9999
    /\ call.result = NullNote

\* The run of loop() without onHeard differs from the run with it in the
\* onHeard invocations only.
SameWithout(with, without) ==
    /\ without.w = with.w
    /\ without.fired = with.fired
    /\ ~without.thrown
    /\ without.heard = <<>>

\* C18: a run of loop() invokes onHeard once when its frame produced a
\* candidate and onHeard was given, with the candidate's name and the
\* frequency it came from, and not at all otherwise; and in every state the
\* next tick without onHeard raises no error and leaves the same gate state
\* and the same onNote invocation as the tick with it.
C18_OnHeard ==
    /\ ev.op \in LoopOps =>
          /\ Len(ev.heard) = IF ev.onHeard /\ ev.cand # NullNote THEN 1 ELSE 0
          /\ \A i \in DOMAIN ev.heard :
                /\ ev.heard[i].note = ev.cand.name
                /\ freqToNote(ev.heard[i].freq, Preset("normal").snapTolerance)
                      = ev.cand
    /\ \A id \in frames : \A frame \in Frames :
          analyser # NoId =>
             SameWithout(loop([World EXCEPT !.frames = @ \ {id}], id,
                              Preset(loops[id].mode), frame, "return", now),
                         loop([World EXCEPT !.frames = @ \ {id}], id,
                              Preset(loops[id].mode), frame, "noOnHeard", now))

\* A tick without onHeard heard a candidate and fired it.
C18_Witness ==
    ev.op = "tick" /\ ~ev.onHeard /\ ev.cand # NullNote /\ ev.fired = ev.cand

\* C19: while useMic reports a live session (micActive), the preset of
\* every running loop is the preset of the selected micMode.
C19_PresetIsSelectedMode ==
    hook.micActive => \A id \in frames : loops[id].mode = hook.micMode

\* C20: toggleMic while inactive starts in the selected mode; when the start
\* returns null micActive becomes true and micError null; when it returns an
\* error string micError becomes that string and micActive is not set; while
\* active it calls stopMicListening() and leaves micActive false, micError
\* null and lastHeardNote null.
C20_ToggleMic ==
    [][/\ (~hook.micActive /\ DOMAIN loops' # DOMAIN loops /\ ev'.op = "none")
            => /\ \E id \in DOMAIN loops' \ DOMAIN loops :
                     /\ loops'[id].mode = hook.micMode
                     /\ loops'[id].st = "gum"
               /\ hook' = hook
       /\ (ev'.op = "resolve" /\ ev'.result = NullResult)
            => hook'.micActive /\ hook'.micError = NullResult
       /\ ev'.op = "reject"
            => /\ ev'.result # NullResult
               /\ hook'.micError = ev'.result
               /\ hook'.micActive = hook.micActive
       /\ ev'.op = "toggleStop"
            => /\ hook.micActive
               /\ ev'.released = stream
               /\ stream' = NoId /\ audioCtx' = NoId /\ rafId' = NoId
               /\ ~hook'.micActive
               /\ hook'.micError = NullResult
               /\ hook'.lastHeardNote = NullHeard]_vars

\* A start from the inactive hook was refused: micError holds the denial
\* message and micActive is still false.
C20_Witness ==
    ev.op = "reject" /\ ~hook.micActive /\ hook.micError = DeniedMessage

\* C25: a tick that is neither suppressed nor firing updates the tracking by
\* its candidate: one equal to the tracked note adds 1 to stableCount, one
\* that differs from the tracked note becomes the tracked note with
\* stableCount 1, and no candidate leaves both unchanged.
C25_TrackingUpdate ==
    [][(ev'.op = "tick" /\ ~ev'.stopped /\ ~(now < suppressUntil)
          /\ ev'.fired = NullNote) =>
          IF ev'.cand = NullNote
          THEN stableNote' = stableNote /\ stableCount' = stableCount
          ELSE IF ev'.cand = stableNote
          THEN stableNote' = stableNote /\ stableCount' = stableCount + 1
          ELSE stableNote' = ev'.cand /\ stableCount' = 1]_vars

\* C26: a tick that invokes onNote, its callback returning, ends with
\* lastFiredNote the fired name, lastFiredTime the clock reading, stableNote
\* null and stableCount 0; and an onNote invocation that follows another in
\* the session comes after at least STABLE_FRAMES frames whose candidate
\* carried its name.
C26_FirePostState ==
    (ev.op \in LoopOps /\ ev.fired # NullNote /\ ~ev.stopped) =>
       /\ lastFiredNote = ev.fired.name
       /\ lastFiredTime = now
       /\ stableNote = NullNote /\ stableCount = 0
       /\ ev.prev # NoCall => since.atFire >= STABLE_FRAMES

\* A second onNote invocation of a session has just happened.
C26_Witness ==
    /\ ev.op = "tick" /\ ev.fired # NullNote /\ ~ev.stopped
    /\ ev.prev # NoCall /\ since.atFire = STABLE_FRAMES

\* C27: a tick that is not suppressed and ends without an onNote invocation
\* does not leave a tracked note at the stability threshold whose name
\* differs from lastFiredNote with the any-note cooldown over: such a note
\* fires in the tick that finds it so.
C27_PromptFire ==
    (ev.op \in LoopOps /\ ev.fired = NullNote /\ ~ev.stopped
       /\ ~(now < suppressUntil)) =>
       ~(/\ stableCount >= StableFrames
         /\ stableNote # NullNote
         /\ stableNote.name # lastFiredNote
         /\ now - lastFiredTime >= AnyCooldown)

\* The first stable note of a session has fired in a tick.
C27_Witness ==
    /\ ev.op = "tick" /\ ev.fired # NullNote /\ ev.prev = NoCall
    /\ lastFiredTime = now /\ ~ev.afterGap

\* C28: a startMicListening call that returns an error string holds no
\* microphone stream, no audio context and no scheduled frame of its own.
C28_ReleaseOnFailure ==
    [][\A id \in DOMAIN loops :
          (/\ loops[id].st = "gum"
           /\ (id \notin DOMAIN loops' \/ loops'[id].st # "gum")
           /\ ev'.result \notin {NoResult, NullResult})
             => id \notin tracks' /\ id \notin ctxs' /\ id \notin frames']_vars

\* C29: suppressMicListening leaves the stream, the audio graph, the
\* scheduled frames and the loops as they are; and with a window set since
\* the last stop and over at the clock reading, the third of three identical
\* candidate frames from an idle gate fires when no cooldown is in force,
\* a frame read then never discarding the tracked count without a fire.
C29_SuppressionEnds ==
    [][/\ (suppressUntil' # suppressUntil /\ suppressUntil' # 0) =>
             /\ stream' = stream /\ audioCtx' = audioCtx /\ analyser' = analyser
             /\ source' = source /\ rafId' = rafId /\ filterNodes' = filterNodes
             /\ tracks' = tracks /\ ctxs' = ctxs /\ frames' = frames
             /\ loops' = loops
       /\ (/\ ev'.op \in LoopOps
           /\ suppressUntil # 0 /\ ~(now < suppressUntil)
           /\ run'.len = 3 /\ CoolFree(run'.note.name))
             => ev'.fired = run'.note
       /\ (/\ ev'.op \in LoopOps /\ ~ev'.stopped
           /\ suppressUntil # 0 /\ ~(now < suppressUntil)
           /\ stableCount >= 1)
             => (ev'.fired # NullNote \/ stableCount' >= 1)]_vars

\* A session that fired before the end of a suppression window has fired
\* again after it.
C29_Witness ==
    /\ ev.op = "tick" /\ ev.fired # NullNote /\ run.len = 3
    /\ ev.prev # NoCall /\ ev.prev.t < suppressUntil /\ ~(now < suppressUntil)

\* C30: onNote is invoked only in a tick whose own frame produced a
\* candidate with the fired name; a tick without a candidate fires nothing.
C30_FireNeedsCandidate ==
    (ev.op \in LoopOps /\ ev.fired # NullNote) =>
        (ev.cand # NullNote /\ ev.cand.name = ev.fired.name)

\* C21: whenever songComplete is true the hook eventually has micActive
\* false, also when songComplete turned true while a start was pending and
\* that start then succeeded.
C21_StopsOnComplete == [](hook.songComplete => <>(~hook.micActive))

\* C22: a correct answer marks the current note correct and moves to the
\* next note, or completes the song on the last one; a first wrong answer
\* changes nothing but hasWrongAttempt; a second wrong answer in a row marks
\* the note incorrect and moves on; so no note takes more than two answers
\* and currentIndex never decreases within a song.
C22_TwoAttempts ==
    [][appEv'.op = "answer" =>
         LET i == game.currentIndex + 1
             correct == game.song[i].note = appEv'.noteName
             Moved(r) ==
                 /\ game'.results = [game.results EXCEPT ![i] = r]
                 /\ ~game'.hasWrongAttempt
                 /\ IF i = Len(game.song)
                    THEN game'.songComplete
                    ELSE game'.currentIndex = game.currentIndex + 1
                         /\ ~game'.songComplete
         IN /\ correct => Moved("correct")
            /\ (~correct /\ ~game.hasWrongAttempt) =>
                  game' = [game EXCEPT !.hasWrongAttempt = TRUE]
            /\ (~correct /\ game.hasWrongAttempt) => Moved("incorrect")
            /\ game'.currentIndex >= game.currentIndex
            /\ game'.song = game.song
            /\ appEv'.tries <= 1]_vars

\* A song completed by its last answer, with a note resolved each way.
C22_Witness ==
    /\ appEv.op = "answer" /\ game.songComplete
    /\ \E i, j \in DOMAIN game.results :
          game.results[i] = "correct" /\ game.results[j] = "incorrect"

\* C23: when the last note of a song is resolved a run record is saved to
\* the stored history and is among the records the history panel shows.
C23_RunRecorded ==
    game.songComplete =>
        /\ Len(loadRecords(storage)) >= 1
        /\ records = loadRecords(storage)

NewestFirst(recs) ==
    \A i, j \in DOMAIN recs : i < j => recs[i].id >= recs[j].id

\* The statement as given: after every saveRecord call the stored history
\* has at most 50 records, newest first with the latest at index 0, and
\* equals the returned array.
C24_Original ==
    LET stored == loadRecords(storage)
    IN /\ Len(stored) <= MAX_RECORDS
       /\ NewestFirst(stored)
       /\ appEv.op = "save" =>
             /\ appEv.returned = stored
             /\ stored # <<>> /\ stored[1].id = now

\* C24: after any sequence of saveRecord calls the stored history holds at
\* most 50 records, newest first; the returned array holds at most 50,
\* newest first with the new record at index 0; and when setItem stored the
\* item and no elapsedMs in it is NaN, the returned array is what
\* loadRecords() then returns.
C24_StoredHistory ==
    LET stored == loadRecords(storage)
    IN /\ Len(stored) <= MAX_RECORDS
       /\ NewestFirst(stored)
       /\ appEv.op = "save" =>
             /\ Len(appEv.returned) <= MAX_RECORDS
             /\ NewestFirst(appEv.returned)
             /\ appEv.returned[1].id = now
             /\ (/\ appEv.written
                 /\ \A i \in DOMAIN appEv.returned :
                       appEv.returned[i].elapsedMs # NaN)
                   => appEv.returned = stored

\* A second save onto a full history that was stored: the oldest record
\* was dropped and the returned array is the stored one.
C24_Witness ==
    /\ appEv.op = "save" /\ appEv.written /\ appEv.dropped /\ appEv.n = 2
    /\ Len(appEv.returned) = MAX_RECORDS
    /\ appEv.returned = loadRecords(storage)

\* C31: the octave passed to onNote is the octave of the candidate of every
\* frame that counted toward the fired run; here, of the frame whose
\* candidate, of the fired name, completed the run.
C31_FiredOctave ==
    (ev.op \in LoopOps /\ ev.fired # NullNote /\ ev.cand # NullNote
        /\ ev.cand.name = ev.fired.name)
      => ev.cand.octave = ev.fired.octave

\* C32: with silence-gap tracking, a tick whose frame yields a candidate
\* does not count as a silence frame: it neither increments silenceFrames
\* nor clears lastFiredNote.
C32_CandidateIsNotSilence ==
    [][(ev'.op \in LoopOps /\ ev'.cand # NullNote) =>
          /\ silenceFrames' # silenceFrames + 1
          /\ lastFiredNote # NullName => lastFiredNote' # NullName]_vars

\* C33: every session begins from a clean gate: when startMicListening
\* goes on after its await and succeeds, suppressUntil = 0, lastFiredNote =
\* null, lastFiredTime = 0, stableNote = null and stableCount = 0; stated
\* for the starts with no other call of startMicListening in progress and
\* no loop of an earlier one left.
C33_CleanGateAtStart ==
    [][(ev'.op = "resolve" /\ ev'.result = NullResult
          /\ Cardinality(DOMAIN loops) = 1 /\ frames = {}) =>
          /\ suppressUntil = 0
          /\ lastFiredNote = NullName /\ lastFiredTime = 0
          /\ stableNote = NullNote /\ stableCount = 0]_vars

\* C34: a note fired by the mic loop is delivered to the onNote handler of
\* the latest render of useMic, whatever handler was current when the mic
\* was started and however many renders came in between.
C34_LatestHandler ==
    [][(ev'.op \in LoopOps /\ ev'.fired # NullNote) =>
          hook'.delivered = hook.onNote]_vars

\* A session started under the first handler fired after two renders.
C34_Witness ==
    /\ ev.op = "tick" /\ ev.fired # NullNote
    /\ hook.onNote = MaxRenders /\ hook.delivered = MaxRenders
    /\ \E id \in DOMAIN loops : loops[id].st = "run" /\ loops[id].onNote = 0

\* C35: in every state of useMic, micActive = true implies micError = null.
C35_ActiveHasNoError == hook.micActive => hook.micError = NullResult

\* C36: a song completes once: finishSong runs at most once per song, and
\* once songComplete is true handleAnswer changes no game state until
\* startNewSong, also for two answers delivered before the hook re-renders.
C36_CompletesOnce ==
    [][appEv'.op = "answer" =>
          /\ appEv'.finished <= 1
          /\ game.songComplete => game' = game]_vars

\* C37: after any answers and new songs, sessionScore <= sessionTotal;
\* sessionTotal is the number of notes resolved since mount, new songs
\* included; sessionScore is the number of notes answered correctly at the
\* first attempt; a note resolved at its second attempt sets sessionStreak
\* to 0, and startNewSong changes none of the three.
C37_SessionStats ==
    [][/\ stats'.sessionScore <= stats'.sessionTotal
       /\ stats'.sessionTotal = appEv'.resolved
       /\ stats'.sessionScore = appEv'.firstTry
       /\ (appEv'.op = "answer" /\ game.hasWrongAttempt
             /\ game'.results # game.results) => stats'.sessionStreak = 0
       /\ appEv'.op = "newSong" => stats' = stats]_vars

\* More notes were resolved than one song holds, one of them at its second
\* attempt and one at its first.
C37_Witness ==
    /\ appEv.op = "answer" /\ stats.sessionTotal = MaxResolved
    /\ stats.sessionScore \in 1..(MaxResolved - 1)
    /\ stats.sessionStreak = 0

\* C38: after any handleClefChange, handleSelectSong, handleRandomSong and
\* startNewSong (the New Song button's click included), every note of the
\* current song is in the note pool of the current clef, or the song is one
\* of the library songs of the current clef.
C38_ClefConsistency ==
    sel # NoSel =>
        \/ \A i \in 1..Len(sel.song) : sel.song[i] \in NOTE_POOLS(sel.clef)
        \/ \E s \in SONGS_BY_CLEF(sel.clef) : sel.song = s.notes

\* The natural MIDI numbers among all MIDI numbers 0..127.
AllNaturalMidis == {m \in 0..127 : ~IsSharp(NoteNameOf(m))}

\* The natural nearest to midiFloat over all MIDI numbers, the lowest one
\* of two equally near.
NearestNatural(midiFloat) ==
    CHOOSE m \in AllNaturalMidis :
        \A m2 \in AllNaturalMidis :
            \/ Abs(midiFloat - m * 10000) < Abs(midiFloat - m2 * 10000)
            \/ /\ Abs(midiFloat - m * 10000) = Abs(midiFloat - m2 * 10000)
               /\ m <= m2

\* The reference mapper: nearest natural, tolerance test, octave.
ReferenceNote(freq, snapTolerance) ==
    LET m == NearestNatural(MidiFloat(freq))
    IN IF Abs(MidiFloat(freq) - m * 10000) > snapTolerance THEN NullNote
       ELSE [name |-> NoteNameOf(m), octave |-> (m \div 12) - 1]

\* C39: for every frequency in 27..4200 Hz the result of freqToNote, which
\* searches round(midi) - 2 .. round(midi) + 2, equals the reference mapper
\* that takes the nearest natural over all MIDI numbers (the lowest on an
\* exact tie), applies the tolerance test and sets octave = floor(midi/12) - 1.
C39_FiveCandidatesSuffice ==
    (call # NoArgs /\ "done" \in DOMAIN call /\ call.done
       /\ call.freq >= 2700 /\ call.freq <= 420000)
    => call.result = ReferenceNote(call.freq, call.snapTolerance)

\* A call whose round(midi) is an accidental exactly between two naturals
\* and which returned the lower one.
C39_Witness ==
    /\ call # NoArgs /\ "done" \in DOMAIN call /\ call.done
    /\ IsSharp(NoteNameOf(MathRound(MidiFloat(call.freq))))
    /\ MidiFloat(call.freq) % 10000 = 0
    /\ call.result # NullNote
    /\ call.result.name = NoteNameOf(MathRound(MidiFloat(call.freq)) - 1)

====
